---- MODULE Spec2Model ----
(***************************************************************************)
(* Model of the markdown escaping engine of src/src/util/Util.js           *)
(* (Util.escapeMarkdown and the Util.escape* family).                      *)
(*                                                                         *)
(* A text is a sequence of one-character strings.  Every escaper is an     *)
(* operator that scans the text the way the escaper's regular expression   *)
(* or literal replaceAll does; escapeMarkdown is modelled twice over the   *)
(* same lines: as the function it computes (escapeMarkdown) and as the     *)
(* run of one call, frame by frame and line by line (the actions).         *)
(***************************************************************************)
EXTENDS Integers, Sequences, FiniteSets, TLC

VARIABLES
    text,       \* the text the caller passes
    options,    \* the options the caller passes, defaults filled in
    stack,      \* the frames of escapeMarkdown in flight, innermost last
    result,     \* the value returned to the caller
    done,       \* the caller's call has returned
    trace,      \* the escapers invoked so far, in invocation order
    history     \* the results of the caller's earlier calls

vars == <<text, options, stack, result, done, trace, history>>

(***************************************************************************)
(* Characters                                                              *)
(***************************************************************************)
BS == "\\"
\* The backtick.  A string literal of the language cannot hold a backtick, so
\* the apostrophe, a character no escaper looks for, is written in its place.
BT == "'"
STAR == "*"
UND == "_"
NL == "\n"
SP == " "

FENCE == <<BT, BT, BT>>

LineTerminators == {"\n", "\r"}

Digits == {"0", "1", "2", "3", "4", "5", "6", "7", "8", "9"}

(***************************************************************************)
(* Literal String.prototype.replaceAll / split / join                      *)
(***************************************************************************)
RECURSIVE replaceAll(_, _, _)
replaceAll(t, pat, rep) ==
    IF Len(t) < Len(pat) THEN t
    ELSE IF SubSeq(t, 1, Len(pat)) = pat
         THEN rep \o replaceAll(SubSeq(t, Len(pat) + 1, Len(t)), pat, rep)
         ELSE <<Head(t)>> \o replaceAll(Tail(t), pat, rep)

\* t.split(sep) for a non-empty literal separator: the pieces between the
\* leftmost non-overlapping occurrences.
RECURSIVE splitFrom(_, _, _, _)
splitFrom(t, sep, i, cur) ==
    IF i > Len(t) THEN <<cur>>
    ELSE IF i + Len(sep) - 1 <= Len(t) /\ SubSeq(t, i, i + Len(sep) - 1) = sep
         THEN <<cur>> \o splitFrom(t, sep, i + Len(sep), <<>>)
         ELSE splitFrom(t, sep, i + 1, Append(cur, t[i]))

split(t, sep) == splitFrom(t, sep, 1, <<>>)

\* /(?<=^|[^`])`(?=[^`]|$)/ at position i: a backtick with no backtick on
\* either side.
loneBacktickAt(t, i) ==
    /\ t[i] = BT
    /\ (i = 1 \/ t[i - 1] # BT)
    /\ (i = Len(t) \/ t[i + 1] # BT)

RECURSIVE splitInlineFrom(_, _, _)
splitInlineFrom(t, i, cur) ==
    IF i > Len(t) THEN <<cur>>
    ELSE IF loneBacktickAt(t, i)
         THEN <<cur>> \o splitInlineFrom(t, i + 1, <<>>)
         ELSE splitInlineFrom(t, i + 1, Append(cur, t[i]))

splitInline(t) == splitInlineFrom(t, 1, <<>>)

RECURSIVE join(_, _)
join(parts, sep) ==
    IF Len(parts) = 0 THEN <<>>
    ELSE IF Len(parts) = 1 THEN parts[1]
    ELSE parts[1] \o sep \o join(Tail(parts), sep)

(***************************************************************************)
(* The escapers                                                            *)
(***************************************************************************)
escapeCodeBlock(t) == replaceAll(t, FENCE, <<BS, BT, BS, BT, BS, BT>>)

\* /(?<=^|[^`])``?(?=[^`]|$)/g : a run of exactly one or exactly two backticks.
RECURSIVE inlineCodeFrom(_, _)
inlineCodeFrom(t, i) ==
    IF i > Len(t) THEN <<>>
    ELSE LET before == i = 1 \/ t[i - 1] # BT
             two == /\ before
                    /\ i + 1 <= Len(t)
                    /\ t[i] = BT /\ t[i + 1] = BT
                    /\ (i + 2 > Len(t) \/ t[i + 2] # BT)
             one == /\ before
                    /\ t[i] = BT
                    /\ (i + 1 > Len(t) \/ t[i + 1] # BT)
         IN  IF two THEN <<BS, BT, BS, BT>> \o inlineCodeFrom(t, i + 2)
             ELSE IF one THEN <<BS, BT>> \o inlineCodeFrom(t, i + 1)
             ELSE <<t[i]>> \o inlineCodeFrom(t, i + 1)

\* every backtick escaped, whatever the length of the run it is in
escapeInlineCodeAnyRun(t) == replaceAll(t, <<BT>>, <<BS, BT>>)

escapeInlineCode(t) == inlineCodeFrom(t, 1)

\* One replace of escapeItalic for marker c:
\* /(?<=^|[^c])c([^c]|cc|$)/g with the toggle counter n (the code's i).
RECURSIVE italicFrom(_, _, _, _)
italicFrom(t, c, i, n) ==
    IF i > Len(t) THEN <<>>
    ELSE IF t[i] = c /\ (i = 1 \/ t[i - 1] # c)
         THEN IF i + 1 <= Len(t) /\ t[i + 1] # c
              THEN <<BS, c, t[i + 1]>> \o italicFrom(t, c, i + 2, n)
              ELSE IF i + 2 <= Len(t) /\ t[i + 1] = c /\ t[i + 2] = c
                   THEN (IF (n + 1) % 2 = 1 THEN <<BS, c, c, c>> ELSE <<c, c, BS, c>>)
                        \o italicFrom(t, c, i + 3, n + 1)
                   ELSE IF i = Len(t)
                        THEN <<BS, c>>
                        ELSE <<t[i]>> \o italicFrom(t, c, i + 1, n)
         ELSE <<t[i]>> \o italicFrom(t, c, i + 1, n)

\* the _ pass going on from the count of a * pass that matched one triple
escapeItalicCounterKept(t) == italicFrom(italicFrom(t, STAR, 1, 0), UND, 1, 1)

escapeItalic(t) == italicFrom(italicFrom(t, STAR, 1, 0), UND, 1, 0)

\* /cc(c)?/g with the toggle counter n: escapeBold (c = *), escapeUnderline (c = _).
RECURSIVE doubledFrom(_, _, _, _)
doubledFrom(t, c, i, n) ==
    IF i > Len(t) THEN <<>>
    ELSE IF i + 1 <= Len(t) /\ t[i] = c /\ t[i + 1] = c
         THEN IF i + 2 <= Len(t) /\ t[i + 2] = c
              THEN (IF (n + 1) % 2 = 1 THEN <<c, BS, c, BS, c>> ELSE <<BS, c, BS, c, c>>)
                   \o doubledFrom(t, c, i + 3, n + 1)
              ELSE <<BS, c, BS, c>> \o doubledFrom(t, c, i + 2, n)
         ELSE <<t[i]>> \o doubledFrom(t, c, i + 1, n)

\* the number of matches of cc(c)? in t from position i on that hold the
\* third marker
RECURSIVE triplesFrom(_, _, _)
triplesFrom(t, c, i) ==
    IF i + 1 > Len(t) THEN 0
    ELSE IF t[i] = c /\ t[i + 1] = c
         THEN IF i + 2 <= Len(t) /\ t[i + 2] = c
              THEN 1 + triplesFrom(t, c, i + 3)
              ELSE triplesFrom(t, c, i + 2)
         ELSE triplesFrom(t, c, i + 1)

\* the triples matched in the texts of the calls h
RECURSIVE triplesOfCalls(_, _)
triplesOfCalls(h, c) ==
    IF h = <<>> THEN 0
    ELSE triplesFrom(Head(h).text, c, 1) + triplesOfCalls(Tail(h), c)

\* escapeBold with one counter for all calls, never set back to 0
escapeBoldCounterShared(t) == doubledFrom(t, STAR, 1, triplesOfCalls(history, STAR))

\* escapeBold without the optional third marker and its toggle
escapeBoldPairsOnly(t) == replaceAll(t, <<STAR, STAR>>, <<BS, STAR, BS, STAR>>)

escapeBold(t) == doubledFrom(t, STAR, 1, 0)

escapeUnderline(t) == doubledFrom(t, UND, 1, 0)

escapeStrikethrough(t) == replaceAll(t, <<"~", "~">>, <<BS, "~", BS, "~">>)

escapeSpoiler(t) == replaceAll(t, <<"|", "|">>, <<BS, "|", BS, "|">>)

escapeEscape(t) == replaceAll(t, <<BS>>, <<BS, BS>>)

\* the anchor ^ left out: a match may start at any position
lineStartAnywhere(t, i) == TRUE

\* ^ under the m flag
lineStart(t, i) == i = 1 \/ t[i - 1] \in LineTerminators

\* the number of consecutive characters of t from position i on that are in S
RECURSIVE run(_, _, _)
run(t, i, S) == IF i <= Len(t) /\ t[i] \in S THEN 1 + run(t, i + 1, S) ELSE 0

\* #{1,3} followed by a space, at position i: the number of # matched, 0 if none
hashesAt(t, i) ==
    LET h == run(t, i, {"#"})
    IN  IF h \in 1..3 /\ i + h <= Len(t) /\ t[i + h] = SP THEN h ELSE 0

\* ( {0,2}[*-] +)? at position i: the length of group 1 when what follows it
\* is #{1,3} and a space, 0 otherwise
headingPrefixAt(t, i) ==
    LET s == run(t, i, {SP})
        m == run(t, i + s + 1, {SP})
    IN  IF /\ s <= 2
           /\ i + s <= Len(t)
           /\ t[i + s] \in {"*", "-"}
           /\ m >= 1
           /\ hashesAt(t, i + s + 1 + m) > 0
        THEN s + 1 + m
        ELSE 0

\* /^( {0,2}[*-] +)?(#{1,3} )/gm -> '$1\\$2'
RECURSIVE headingFrom(_, _)
headingFrom(t, i) ==
    IF i > Len(t) THEN <<>>
    ELSE LET p == headingPrefixAt(t, i)
             h == hashesAt(t, i + p)
         IN  IF lineStart(t, i) /\ h > 0
             THEN SubSeq(t, i, i + p - 1) \o <<BS>> \o SubSeq(t, i + p, i + p + h)
                  \o headingFrom(t, i + p + h + 1)
             ELSE <<t[i]>> \o headingFrom(t, i + 1)

escapeHeading(t) == headingFrom(t, 1)

\* /^( *)[*-]( +)/gm -> '$1\\-$2'
RECURSIVE bulletedListFrom(_, _)
bulletedListFrom(t, i) ==
    IF i > Len(t) THEN <<>>
    ELSE LET s == run(t, i, {SP})
             m == run(t, i + s + 1, {SP})
         IN  IF /\ lineStart(t, i)
                /\ i + s <= Len(t)
                /\ t[i + s] \in {"*", "-"}
                /\ m >= 1
             THEN SubSeq(t, i, i + s - 1) \o <<BS, "-">>
                  \o SubSeq(t, i + s + 1, i + s + m)
                  \o bulletedListFrom(t, i + s + 1 + m)
             ELSE <<t[i]>> \o bulletedListFrom(t, i + 1)

escapeBulletedList(t) == bulletedListFrom(t, 1)

\* /^( *\d+)\./gm -> '$1\\.'
RECURSIVE numberedListFrom(_, _)
numberedListFrom(t, i) ==
    IF i > Len(t) THEN <<>>
    ELSE LET s == run(t, i, {SP})
             d == run(t, i + s, Digits)
         IN  IF /\ lineStart(t, i)
                /\ d >= 1
                /\ i + s + d <= Len(t)
                /\ t[i + s + d] = "."
             THEN SubSeq(t, i, i + s + d - 1) \o <<BS, ".">>
                  \o numberedListFrom(t, i + s + d + 1)
             ELSE <<t[i]>> \o numberedListFrom(t, i + 1)

escapeNumberedList(t) == numberedListFrom(t, 1)

\* the last position of the line position i is on (. matches no line terminator)
lineEnd(t, i) == i + run(t, i, {t[k] : k \in 1..Len(t)} \ LineTerminators) - 1

\* /\[.+\]\(.+\)/ at position i: the position of the closing parenthesis of
\* the (greedy) match, 0 if there is none
maskedLinkAt(t, i) ==
    IF t[i] # "[" THEN 0
    ELSE LET e == lineEnd(t, i)
             closers == {k \in i..e : t[k] = ")"}
             last == IF closers = {} THEN 0
                     ELSE CHOOSE k \in closers : \A k2 \in closers : k2 <= k
         IN  IF \E j \in (i + 2)..(last - 3) : t[j] = "]" /\ t[j + 1] = "("
             THEN last
             ELSE 0

\* /\[.+\]\(.+\)/gm -> '\\$&'
RECURSIVE maskedLinkFrom(_, _)
maskedLinkFrom(t, i) ==
    IF i > Len(t) THEN <<>>
    ELSE LET k == maskedLinkAt(t, i)
         IN  IF k > 0
             THEN <<BS>> \o SubSeq(t, i, k) \o maskedLinkFrom(t, k + 1)
             ELSE <<t[i]>> \o maskedLinkFrom(t, i + 1)

escapeMaskedLink(t) == maskedLinkFrom(t, 1)

(***************************************************************************)
(* Options                                                                 *)
(***************************************************************************)
OptionNames ==
    {"codeBlock", "inlineCode", "bold", "italic", "underline", "strikethrough",
     "spoiler", "codeBlockContent", "inlineCodeContent", "escape", "heading",
     "bulletedList", "numberedList", "maskedLink"}

\* every option defaulting to true
DefaultsAllTrue == [k \in OptionNames |-> TRUE]

\* the defaults of the destructured parameter
Defaults ==
    [k \in OptionNames |->
        k \notin {"heading", "bulletedList", "numberedList", "maskedLink"}]

\* the recursive call passed the caller's options whole
destructureAll(o, keys) == o

\* the options a callee sees when it is passed an object holding only the
\* properties in keys: the others take their defaults
destructure(o, keys) ==
    [k \in OptionNames |-> IF k \in keys THEN o[k] ELSE Defaults[k]]

\* the properties of the object the fence branch passes to the recursive call
fencePassed ==
    {"inlineCode", "bold", "italic", "underline", "strikethrough", "spoiler",
     "inlineCodeContent", "escape", "heading", "bulletedList", "numberedList",
     "maskedLink"}

\* the properties of the object the inline-code branch passes
inlinePassed ==
    {"codeBlock", "bold", "italic", "underline", "strikethrough", "spoiler",
     "escape", "heading", "bulletedList", "numberedList", "maskedLink"}

\* the callbacks' test with the parity of the index the other way round
keepRegionEven(index, length) == index % 2 = 0 /\ index # length - 1

\* the callbacks' test without the exception for the last region
keepRegionAlsoLast(index, length) == index % 2 = 1

\* the map callbacks' test: the region at (0-based) index is returned as it is
keepRegion(index, length) == index % 2 = 1 /\ index # length - 1

\* the inline-code branch joining with the literal backtick whatever inlineCode is
inlineJoinerLiteral(o) == <<BT>>

fenceJoiner(o) == IF o.codeBlock THEN <<BS, BT, BS, BT, BS, BT>> ELSE FENCE

inlineJoiner(o) == IF o.inlineCode THEN <<BS, BT>> ELSE <<BT>>

(***************************************************************************)
(* escapeMarkdown as the function it computes                              *)
(***************************************************************************)
\* lines 209-221
compose(t, o) ==
    LET t1 == IF o.escape THEN escapeEscape(t) ELSE t
        t2 == IF o.inlineCode THEN escapeInlineCode(t1) ELSE t1
        t3 == IF o.codeBlock THEN escapeCodeBlock(t2) ELSE t2
        t4 == IF o.italic THEN escapeItalic(t3) ELSE t3
        t5 == IF o.bold THEN escapeBold(t4) ELSE t4
        t6 == IF o.underline THEN escapeUnderline(t5) ELSE t5
        t7 == IF o.strikethrough THEN escapeStrikethrough(t6) ELSE t6
        t8 == IF o.spoiler THEN escapeSpoiler(t7) ELSE t7
        t9 == IF o.heading THEN escapeHeading(t8) ELSE t8
        t10 == IF o.bulletedList THEN escapeBulletedList(t9) ELSE t9
        t11 == IF o.numberedList THEN escapeNumberedList(t10) ELSE t10
    IN  IF o.maskedLink THEN escapeMaskedLink(t11) ELSE t11

RECURSIVE escapeMarkdown(_, _)
escapeMarkdown(t, o) ==
    IF ~o.codeBlockContent
    THEN LET parts == split(t, FENCE)
         IN  join([k \in 1..Len(parts) |->
                      IF keepRegion(k - 1, Len(parts)) THEN parts[k]
                      ELSE escapeMarkdown(parts[k], destructure(o, fencePassed))],
                  fenceJoiner(o))
    ELSE IF ~o.inlineCodeContent
    THEN LET parts == splitInline(t)
         IN  join([k \in 1..Len(parts) |->
                      IF keepRegion(k - 1, Len(parts)) THEN parts[k]
                      ELSE escapeMarkdown(parts[k], destructure(o, inlinePassed))],
                  inlineJoiner(o))
    ELSE compose(t, o)

(***************************************************************************)
(* escapeMarkdown as a run: one frame per call in flight                   *)
(***************************************************************************)
\* where a call starts after the tests of lines 166 and 188
entry(o) ==
    IF ~o.codeBlockContent THEN "L167"
    ELSE IF ~o.inlineCodeContent THEN "L189"
    ELSE "L209"

frame(t, o) == [text |-> t, options |-> o, pc |-> entry(o), parts |-> <<>>, mapped |-> <<>>]

top == stack[Len(stack)]

replaceTop(f) == [stack EXCEPT ![Len(stack)] = f]

\* the innermost call returns v: to the map callback of its caller, which
\* collects it, or to the caller of the engine
returns(v) ==
    IF Len(stack) = 1
    THEN /\ stack' = <<>>
         /\ result' = v
         /\ done' = TRUE
    ELSE /\ stack' = [SubSeq(stack, 1, Len(stack) - 1) EXCEPT
                        ![Len(stack) - 1].mapped = Append(@, v)]
         /\ UNCHANGED <<result, done>>

\* the caller invokes Util.escapeMarkdown(text, options)
Call ==
    /\ stack = <<>> /\ ~done
    /\ stack' = <<frame(text, options)>>
    /\ UNCHANGED <<text, options, result, done, trace, history>>

\* lines 167-168: text.split('```')
SplitFence ==
    /\ stack # <<>> /\ top.pc = "L167"
    /\ stack' = replaceTop([top EXCEPT !.pc = "L169", !.parts = split(top.text, FENCE)])
    /\ UNCHANGED <<text, options, result, done, trace, history>>

\* line 170: the callback returns the region as it is
FenceKeep ==
    /\ stack # <<>> /\ top.pc = "L169"
    /\ Len(top.mapped) < Len(top.parts)
    /\ keepRegion(Len(top.mapped), Len(top.parts))
    /\ stack' = replaceTop([top EXCEPT !.mapped = Append(@, top.parts[Len(top.mapped) + 1])])
    /\ UNCHANGED <<text, options, result, done, trace, history>>

\* lines 171-184: the callback calls Util.escapeMarkdown on the region
FenceRecurse ==
    /\ stack # <<>> /\ top.pc = "L169"
    /\ Len(top.mapped) < Len(top.parts)
    /\ ~keepRegion(Len(top.mapped), Len(top.parts))
    /\ stack' = Append(stack, frame(top.parts[Len(top.mapped) + 1],
                                    destructure(top.options, fencePassed)))
    /\ UNCHANGED <<text, options, result, done, trace, history>>

\* line 186: join and return
FenceJoin ==
    /\ stack # <<>> /\ top.pc = "L169"
    /\ Len(top.mapped) = Len(top.parts)
    /\ returns(join(top.mapped, fenceJoiner(top.options)))
    /\ UNCHANGED <<text, options, trace, history>>

\* lines 189-190: text.split(/(?<=^|[^`])`(?=[^`]|$)/g)
SplitInline ==
    /\ stack # <<>> /\ top.pc = "L189"
    /\ stack' = replaceTop([top EXCEPT !.pc = "L191", !.parts = splitInline(top.text)])
    /\ UNCHANGED <<text, options, result, done, trace, history>>

\* line 192
InlineKeep ==
    /\ stack # <<>> /\ top.pc = "L191"
    /\ Len(top.mapped) < Len(top.parts)
    /\ keepRegion(Len(top.mapped), Len(top.parts))
    /\ stack' = replaceTop([top EXCEPT !.mapped = Append(@, top.parts[Len(top.mapped) + 1])])
    /\ UNCHANGED <<text, options, result, done, trace, history>>

\* lines 193-205
InlineRecurse ==
    /\ stack # <<>> /\ top.pc = "L191"
    /\ Len(top.mapped) < Len(top.parts)
    /\ ~keepRegion(Len(top.mapped), Len(top.parts))
    /\ stack' = Append(stack, frame(top.parts[Len(top.mapped) + 1],
                                    destructure(top.options, inlinePassed)))
    /\ UNCHANGED <<text, options, result, done, trace, history>>

\* line 207
InlineJoin ==
    /\ stack # <<>> /\ top.pc = "L191"
    /\ Len(top.mapped) = Len(top.parts)
    /\ returns(join(top.mapped, inlineJoiner(top.options)))
    /\ UNCHANGED <<text, options, trace, history>>

\* one line of 209-220: if (flag) text = Util.escaper(text); escaped is the
\* value of Util.escaper(text)
line(at, next, flag, name, escaped) ==
    /\ stack # <<>> /\ top.pc = at
    /\ stack' = replaceTop([top EXCEPT
                    !.pc = next,
                    !.text = IF top.options[flag] THEN escaped ELSE @])
    /\ trace' = IF top.options[flag] THEN Append(trace, name) ELSE trace
    /\ UNCHANGED <<text, options, result, done, history>>

Line209 == line("L209", "L210", "escape", "escapeEscape", escapeEscape(top.text))
Line210 == line("L210", "L211", "inlineCode", "escapeInlineCode", escapeInlineCode(top.text))
Line211 == line("L211", "L212", "codeBlock", "escapeCodeBlock", escapeCodeBlock(top.text))
\* line 212 calling escapeBold where escapeItalic belongs
LineBoldAt212 == line("L212", "L213", "italic", "escapeBold", escapeBold(top.text))

Line212 == line("L212", "L213", "italic", "escapeItalic", escapeItalic(top.text))
Line213 == line("L213", "L214", "bold", "escapeBold", escapeBold(top.text))
Line214 == line("L214", "L215", "underline", "escapeUnderline", escapeUnderline(top.text))
Line215 == line("L215", "L216", "strikethrough", "escapeStrikethrough", escapeStrikethrough(top.text))
Line216 == line("L216", "L217", "spoiler", "escapeSpoiler", escapeSpoiler(top.text))
Line217 == line("L217", "L218", "heading", "escapeHeading", escapeHeading(top.text))
Line218 == line("L218", "L219", "bulletedList", "escapeBulletedList", escapeBulletedList(top.text))
Line219 == line("L219", "L220", "numberedList", "escapeNumberedList", escapeNumberedList(top.text))
Line220 == line("L220", "L221", "maskedLink", "escapeMaskedLink", escapeMaskedLink(top.text))

\* line 221: return text
Line221 ==
    /\ stack # <<>> /\ top.pc = "L221"
    /\ returns(top.text)
    /\ UNCHANGED <<text, options, trace, history>>

Composer ==
    \/ Line209 \/ Line210 \/ Line211 \/ Line212 \/ Line213 \/ Line214
    \/ Line215 \/ Line216 \/ Line217 \/ Line218 \/ Line219 \/ Line220
    \/ Line221

Splitter ==
    \/ SplitFence \/ FenceKeep \/ FenceRecurse \/ FenceJoin
    \/ SplitInline \/ InlineKeep \/ InlineRecurse \/ InlineJoin

(***************************************************************************)
(* Inputs                                                                  *)
(***************************************************************************)
RECURSIVE flatten(_)
flatten(s) == IF s = <<>> THEN <<>> ELSE Head(s) \o flatten(Tail(s))

\* the texts made of at most n pieces of P, put end to end
TextsOf(P, n) == {flatten(s) : s \in UNION {[1..k -> P] : k \in 0..n}}

\* o with the flags of S set to v
withFlags(o, S, v) == [k \in OptionNames |-> IF k \in S THEN v ELSE o[k]]

ConstructFlags == OptionNames \ {"codeBlockContent", "inlineCodeContent"}

AllOn == [k \in OptionNames |-> TRUE]

Idle ==
    /\ stack = <<>>
    /\ result = <<>>
    /\ done = FALSE
    /\ trace = <<>>
    /\ history = <<>>

\* a direct call of one escaper, Util[name](t)
apply(name, t) ==
    CASE name = "escapeEscape" -> escapeEscape(t)
      [] name = "escapeInlineCode" -> escapeInlineCode(t)
      [] name = "escapeCodeBlock" -> escapeCodeBlock(t)
      [] name = "escapeItalic" -> escapeItalic(t)
      [] name = "escapeBold" -> escapeBold(t)
      [] name = "escapeUnderline" -> escapeUnderline(t)
      [] name = "escapeStrikethrough" -> escapeStrikethrough(t)
      [] name = "escapeSpoiler" -> escapeSpoiler(t)
      [] name = "escapeHeading" -> escapeHeading(t)
      [] name = "escapeBulletedList" -> escapeBulletedList(t)
      [] name = "escapeNumberedList" -> escapeNumberedList(t)
      [] name = "escapeMaskedLink" -> escapeMaskedLink(t)

(***************************************************************************)
(* The composer alone: calls with both content flags true                  *)
(***************************************************************************)
MaxComposePieces == 2

ComposePieces ==
    {<<STAR>>, <<BS>>, <<UND>>, <<"-", SP>>, FENCE, <<STAR, STAR, STAR>>}

\* every construct on, every construct off, the defaults, and each of these
\* with one construct flag flipped
ComposeOptions ==
    LET bases == {AllOn, Defaults, withFlags(AllOn, ConstructFlags, FALSE)}
    IN  bases \cup {withFlags(b, {k}, ~b[k]) : b \in bases, k \in ConstructFlags}

InitCompose ==
    /\ text \in TextsOf(ComposePieces, MaxComposePieces)
    /\ options \in ComposeOptions
    /\ Idle

NextCompose == Call \/ Composer

SpecCompose == InitCompose /\ [][NextCompose]_vars

\* the run of a call returns what the function computes
RunIsFunction == done => result = escapeMarkdown(text, options)

(***************************************************************************)
(* C1                                                                      *)
(***************************************************************************)
C1_Order ==
    <<"escapeEscape", "escapeInlineCode", "escapeCodeBlock", "escapeItalic",
      "escapeBold", "escapeUnderline", "escapeStrikethrough", "escapeSpoiler",
      "escapeHeading", "escapeBulletedList", "escapeNumberedList",
      "escapeMaskedLink">>

C1_Flag ==
    [escapeEscape |-> "escape", escapeInlineCode |-> "inlineCode",
     escapeCodeBlock |-> "codeBlock", escapeItalic |-> "italic",
     escapeBold |-> "bold", escapeUnderline |-> "underline",
     escapeStrikethrough |-> "strikethrough", escapeSpoiler |-> "spoiler",
     escapeHeading |-> "heading", escapeBulletedList |-> "bulletedList",
     escapeNumberedList |-> "numberedList", escapeMaskedLink |-> "maskedLink"]

\* the escapers of names applied to t one after the other, each to the
\* output of the one before
RECURSIVE C1_Feed(_, _)
C1_Feed(t, names) ==
    IF names = <<>> THEN t ELSE C1_Feed(apply(Head(names), t), Tail(names))

C1_Enabled(o) == SelectSeq(C1_Order, LAMBDA n : o[C1_Flag[n]])

C1_Reverse(s) == [k \in 1..Len(s) |-> s[Len(s) + 1 - k]]

\* C1: with both content flags true, the call invokes exactly the enabled
\* escapers, each once, in the fixed order escapeEscape, escapeInlineCode,
\* escapeCodeBlock, escapeItalic, escapeBold, escapeUnderline,
\* escapeStrikethrough, escapeSpoiler, escapeHeading, escapeBulletedList,
\* escapeNumberedList, escapeMaskedLink, and returns the text fed through
\* them in that order.
C1_FixedOrder ==
    (done /\ options.codeBlockContent /\ options.inlineCodeContent) =>
        /\ trace = C1_Enabled(options)
        /\ result = C1_Feed(text, C1_Enabled(options))

\* a finished call with a disabled escaper, on a text for which the order of
\* the enabled ones shows in the result
C1_Witness ==
    /\ done /\ options.codeBlockContent /\ options.inlineCodeContent
    /\ \E k \in ConstructFlags : ~options[k]
    /\ Len(trace) >= 3
    /\ result # C1_Feed(text, C1_Reverse(trace))

(***************************************************************************)
(* The whole engine: calls that may protect the content of code            *)
(***************************************************************************)
MaxSplitPieces == 3

SplitPieces == {FENCE, <<BT>>, <<STAR>>, <<BT, STAR>>, <<BT, BT, BT, STAR>>}

StructuralFlags == {"codeBlock", "inlineCode", "codeBlockContent", "inlineCodeContent"}

\* every combination of the four flags the splitter reads, over the defaults
\* and over every other construct switched off
SplitOptions ==
    {[k \in OptionNames |-> IF k \in StructuralFlags THEN f[k] ELSE b[k]] :
        f \in [StructuralFlags -> BOOLEAN],
        b \in {Defaults, withFlags(Defaults, ConstructFlags, FALSE)}}

InitSplit ==
    /\ text \in TextsOf(SplitPieces, MaxSplitPieces)
    /\ options \in SplitOptions
    /\ Idle

NextSplit == Call \/ Splitter \/ Composer

SpecSplit == InitSplit /\ [][NextSplit]_vars

\* a call in flight is always allowed its next step
FairSplit == SpecSplit /\ WF_vars(NextSplit)

(***************************************************************************)
(* C2                                                                      *)
(***************************************************************************)
C2_Has(t, c) == \E k \in 1..Len(t) : t[k] = c

\* the regions of parts put back together around the delimiter joiner, the
\* regions picked by kept as they are and the others escaped by the engine
\* under the options o
C2_Rebuilt(parts, kept(_), o, joiner) ==
    join([k \in 1..Len(parts) |->
             IF kept(k) THEN parts[k] ELSE escapeMarkdown(parts[k], o)],
         joiner)

C2_FenceForm == IF options.codeBlock THEN <<BS, BT, BS, BT, BS, BT>> ELSE FENCE

C2_Outside == [options EXCEPT !.codeBlockContent = TRUE]

\* C2: with codeBlockContent false and an even number of fences, the result
\* is the text with every region between an opening and its closing fence
\* character for character as it was, every region outside the fences
\* escaped as the engine escapes it under the caller's other flags, and
\* every fence written escaped when codeBlock is true and literal when it
\* is false.
C2_FenceContentKept ==
    LET parts == split(text, FENCE)
    IN  (done /\ ~options.codeBlockContent /\ (Len(parts) - 1) % 2 = 0) =>
            result = C2_Rebuilt(parts, LAMBDA k : k % 2 = 0, C2_Outside, C2_FenceForm)

\* a finished call on a text with a complete fenced block that holds a star,
\* and a star outside it that the call escaped
C2_Witness ==
    LET parts == split(text, FENCE)
    IN  /\ done /\ ~options.codeBlockContent /\ options.italic
        /\ Len(parts) = 3
        /\ C2_Has(parts[2], STAR)
        /\ C2_Has(parts[3], STAR)
        /\ result # text

(***************************************************************************)
(* C3                                                                      *)
(***************************************************************************)
\* what the engine makes of a region outside the code of either kind
C3_OutsideFence == destructure(options, fencePassed)

C3_OutsideInline == destructure(options, inlinePassed)

\* C3: with an odd number of delimiters (fences when codeBlockContent is
\* false, lone backticks when only inlineCodeContent is false) the region
\* after the last delimiter is escaped like the regions outside the code,
\* and the regions between the earlier pairs of delimiters are kept.
C3_UnterminatedIsPlain ==
    LET fparts == split(text, FENCE)
        iparts == splitInline(text)
    IN  /\ (done /\ ~options.codeBlockContent /\ (Len(fparts) - 1) % 2 = 1) =>
              result = C2_Rebuilt(fparts,
                                  LAMBDA k : k % 2 = 0 /\ k < Len(fparts),
                                  C3_OutsideFence, C2_FenceForm)
        /\ (done /\ options.codeBlockContent /\ ~options.inlineCodeContent
                 /\ (Len(iparts) - 1) % 2 = 1) =>
              result = C2_Rebuilt(iparts,
                                  LAMBDA k : k % 2 = 0 /\ k < Len(iparts),
                                  C3_OutsideInline,
                                  IF options.inlineCode THEN <<BS, BT>> ELSE <<BT>>)

\* a finished call on a text with three fences: a star inside the complete
\* block, kept, and a star after the third fence, escaped
C3_Witness ==
    LET parts == split(text, FENCE)
    IN  /\ done /\ ~options.codeBlockContent /\ options.italic
        /\ Len(parts) = 4
        /\ parts[2] = <<STAR>>
        /\ parts[4] = <<STAR>>
        /\ result = C2_FenceForm \o <<STAR>> \o C2_FenceForm \o C2_FenceForm \o <<BS, STAR>>

\* the same for lone backticks
C3_WitnessInline ==
    LET parts == splitInline(text)
    IN  /\ done /\ options.codeBlockContent /\ ~options.inlineCodeContent
        /\ options.italic /\ ~options.inlineCode
        /\ parts = <<<<>>, <<STAR>>, <<STAR>>, <<STAR>>>>
        /\ result = <<BT, STAR, BT, BS, STAR, BT, BS, STAR>>

(***************************************************************************)
(* C4                                                                      *)
(***************************************************************************)
\* a backtick, a non-empty content without backticks, a backtick
C4_OneSpan(t) ==
    /\ Len(t) >= 3
    /\ t[1] = BT /\ t[Len(t)] = BT
    /\ \A k \in 2..(Len(t) - 1) : t[k] # BT

C4_Options == [Defaults EXCEPT !.inlineCodeContent = FALSE]

C4_Content == SubSeq(text, 2, Len(text) - 1)

\* C4 as stated: with inlineCodeContent false and every other option at its
\* default, a text that is one inline code span is returned unchanged.
C4_Original ==
    (done /\ options = C4_Options /\ C4_OneSpan(text)) => result = text

\* C4 as amended: the content of the span is returned unchanged and each of
\* the two delimiting backticks is returned with a backslash before it
\* (inlineCode is true by default).
C4_SpanDelimitersEscaped ==
    (done /\ options = C4_Options /\ C4_OneSpan(text)) =>
        result = <<BS, BT>> \o C4_Content \o <<BS, BT>>

\* a finished call on a span whose content the composer would have changed
C4_Witness ==
    /\ done /\ options = C4_Options /\ C4_OneSpan(text)
    /\ C2_Has(C4_Content, STAR)

(***************************************************************************)
(* C9                                                                      *)
(***************************************************************************)
\* C9: every call returns, and returns a text (the empty text for the empty
\* text); at no time are there more than two calls nested in the caller's.
C9_Terminates ==
    /\ [](/\ Len(stack) <= 3
          /\ done => \A k \in 1..Len(result) : result[k] \in STRING
          /\ (done /\ text = <<>>) => result = <<>>)
    /\ <>done

\* a moment with two calls nested in the caller's: the fence level, the
\* inline-code level and the composer
C9_Witness ==
    /\ Len(stack) = 3
    /\ stack[1].pc = "L169" /\ stack[2].pc = "L191" /\ stack[3].pc = "L215"
    /\ Len(stack[1].parts) >= 4

(***************************************************************************)
(* A caller that escapes a text and then escapes the result again          *)
(***************************************************************************)
\* the caller keeps the returned text and calls Util.escapeMarkdown on it
\* with the same options
CallOnResult ==
    /\ done /\ history = <<>>
    /\ history' = <<[text |-> text, options |-> options, result |-> result]>>
    /\ text' = result
    /\ done' = FALSE
    /\ result' = <<>>
    /\ trace' = <<>>
    /\ UNCHANGED <<options, stack>>

MaxTwicePieces == 3

TwicePieces ==
    {<<"#", SP>>, <<"-", SP>>, <<STAR, SP>>, <<"1", ".">>, <<SP>>, <<NL>>}

\* only the construct c enabled
Only(c) == withFlags(withFlags(AllOn, ConstructFlags, FALSE), {c}, TRUE)

InitTwice ==
    /\ text \in TextsOf(TwicePieces, MaxTwicePieces)
    /\ options \in {Only(c) : c \in ConstructFlags \ {"escape"}}
    /\ Idle

NextTwice == Call \/ Composer \/ CallOnResult

SpecTwice == InitTwice /\ [][NextTwice]_vars

C5_LineAnchored == {Only("heading"), Only("bulletedList"), Only("numberedList")}

MaxAllPieces == 3

AllPieces ==
    {<<STAR>>, <<UND>>, <<BS>>, <<BT>>, <<"~">>, <<"|">>, <<SP>>, <<"-">>,
     <<NL>>, <<"#">>, <<"1", ".">>, <<"[", "a", "]", "(", "b", ")">>,
     <<STAR, STAR, STAR>>}

InitAll ==
    /\ text \in TextsOf(AllPieces, MaxAllPieces)
    /\ options = AllOn
    /\ Idle

SpecAll == InitAll /\ [][NextCompose]_vars

(***************************************************************************)
(* C6                                                                      *)
(***************************************************************************)
\* the characters an escaper puts a backslash before
C6_Syntax == {BS, BT, STAR, UND, "~", "|", "#", "-", ".", "["}

\* o from position j on is t from position i on with backslashes inserted,
\* each immediately before a syntax character, and nothing else
RECURSIVE C6_InsertedFrom(_, _, _, _)
C6_InsertedFrom(t, o, i, j) ==
    IF j > Len(o) THEN i > Len(t)
    ELSE \/ /\ i <= Len(t)
            /\ o[j] = t[i]
            /\ C6_InsertedFrom(t, o, i + 1, j + 1)
         \/ /\ o[j] = BS
            /\ j < Len(o)
            /\ o[j + 1] \in C6_Syntax
            /\ C6_InsertedFrom(t, o, i, j + 1)

C6_InsertOnly(t, o) == C6_InsertedFrom(t, o, 1, 1)

\* C6: with every option enabled the result is the text with backslashes
\* inserted, each immediately before a markdown-special character, and no
\* other character changed, dropped or moved: taking the inserted
\* backslashes out gives the text back.
C6_RoundTrip ==
    (done /\ options = AllOn) => C6_InsertOnly(text, result)

\* a finished call on a text with a backslash of its own and a star that
\* starts a list item
C6_Witness ==
    /\ done /\ options = AllOn
    /\ Len(text) >= 3
    /\ text[1] = STAR /\ text[2] = SP
    /\ C2_Has(text, BS)
    /\ Len(result) > Len(text) + 1

(***************************************************************************)
(* C7                                                                      *)
(***************************************************************************)
\* the number of backslashes right before position k of t
RECURSIVE C7_BackslashesBefore(_, _)
C7_BackslashesBefore(t, k) ==
    IF k > 1 /\ t[k - 1] = BS THEN 1 + C7_BackslashesBefore(t, k - 1) ELSE 0

C7_Count(t, c) == Cardinality({k \in 1..Len(t) : t[k] = c})

\* C7: a text with an even number of stars, no backslash and no backtick,
\* escaped with italic and bold enabled, has no star left that a backslash
\* does not escape.
C7_NoBareStar ==
    (/\ done /\ options.italic /\ options.bold /\ options.escape
     /\ options.codeBlockContent /\ options.inlineCodeContent
     /\ C7_Count(text, STAR) % 2 = 0
     /\ ~C2_Has(text, BS) /\ ~C2_Has(text, BT)) =>
        \A k \in 1..Len(result) :
            result[k] = STAR => C7_BackslashesBefore(result, k) % 2 = 1

(***************************************************************************)
(* Direct calls of the escapers                                            *)
(***************************************************************************)
EscaperNames ==
    {"escapeEscape", "escapeInlineCode", "escapeCodeBlock", "escapeItalic",
     "escapeBold", "escapeUnderline", "escapeStrikethrough", "escapeSpoiler",
     "escapeHeading", "escapeBulletedList", "escapeNumberedList",
     "escapeMaskedLink"}

\* the caller invokes one escaper on the text
CallEscaper ==
    /\ stack = <<>> /\ ~done
    /\ \E name \in EscaperNames :
          /\ result' = apply(name, text)
          /\ trace' = <<name>>
    /\ done' = TRUE
    /\ UNCHANGED <<text, options, stack, history>>

InitEscapers ==
    /\ text \in TextsOf(AllPieces, MaxAllPieces)
    /\ options = Defaults
    /\ Idle

NextEscapers == CallEscaper

SpecEscapers == InitEscapers /\ [][NextEscapers]_vars

(***************************************************************************)
(* C8                                                                      *)
(***************************************************************************)
\* C8: the text an escaper returns is the text it was given with
\* backslashes inserted immediately before syntax characters, and nothing
\* else.
C8_InsertOnly ==
    (done /\ Len(trace) = 1) => C6_InsertOnly(text, result)

\* the same of every escaper but escapeBulletedList
C8_InsertOnlyButBulletedList ==
    (done /\ Len(trace) = 1 /\ trace[1] # "escapeBulletedList") =>
        C6_InsertOnly(text, result)

(***************************************************************************)
(* Calls with the default options                                          *)
(***************************************************************************)
MaxPlainPieces == 4

PlainPieces ==
    {<<"a">>, <<"#", SP>>, <<"-", SP>>, <<NL, "1", ".">>,
     <<"[", "a", "]", "(", "b", ")">>, <<STAR>>}

InitPlain ==
    /\ text \in TextsOf(PlainPieces, MaxPlainPieces)
    /\ options = Defaults
    /\ Idle

SpecPlain == InitPlain /\ [][NextCompose]_vars

(***************************************************************************)
(* C10                                                                     *)
(***************************************************************************)
C10_Special == {BS, BT, STAR, UND, "~", "|"}

C10_Plain(t) == \A k \in 1..Len(t) : t[k] \notin C10_Special

\* C10: a text without backslash, backtick, star, underscore, tilde or bar
\* is returned unchanged under the default options.
C10_PlainUnchanged ==
    (done /\ options = Defaults /\ C10_Plain(text)) => result = text

\* a finished call on a plain text with a list item, a heading, a masked
\* link and a numbered item, each of which its escaper would have changed
C10_Witness ==
    /\ done /\ options = Defaults /\ C10_Plain(text)
    /\ escapeHeading(text) # text
    /\ escapeBulletedList(text) # text
    /\ escapeNumberedList(text) # text
    /\ escapeMaskedLink(text) # text

(***************************************************************************)
(* C11                                                                     *)
(***************************************************************************)
\* inlineCode and inlineCodeContent false, the content of fences escaped like
\* the rest, and every other construct flag false
C11_NothingEnabled ==
    /\ options.codeBlockContent
    /\ ~options.inlineCodeContent
    /\ \A k \in ConstructFlags : ~options[k]

\* C11: with inlineCode false, inlineCodeContent false and every other
\* construct flag false, no backtick of the text gets a backslash: the
\* result is the text.
C11_BackticksUntouched ==
    (done /\ C11_NothingEnabled) => result = text

(***************************************************************************)
(* C12                                                                     *)
(***************************************************************************)
\* C12: under the default options every backtick of the result has a
\* backslash immediately before it.
C12_EveryBacktickEscaped ==
    (done /\ options = Defaults) =>
        \A k \in 1..Len(result) :
            result[k] = BT => (k > 1 /\ result[k - 1] = BS)

(***************************************************************************)
(* Direct calls of the escapers on texts of emphasis markers and backticks *)
(***************************************************************************)
MaxMarkerPieces == 4

MarkerPieces ==
    {<<STAR>>, <<UND>>, <<"a">>, <<STAR, STAR, STAR>>, <<UND, UND, UND>>,
     <<"a", STAR, STAR, "a">>, <<BT>>, FENCE}

InitMarkers ==
    /\ text \in TextsOf(MarkerPieces, MaxMarkerPieces)
    /\ options = Defaults
    /\ Idle

SpecMarkers == InitMarkers /\ [][NextEscapers]_vars

(***************************************************************************)
(* C13                                                                     *)
(***************************************************************************)
\* the positions of the markers c of t that no c precedes
C13_Occurrences(t, c) == {p \in 1..Len(t) : t[p] = c /\ (p = 1 \/ t[p - 1] # c)}

\* the occurrence at p is directly followed by cc
C13_Doubled(t, c, p) == p + 2 <= Len(t) /\ t[p + 1] = c /\ t[p + 2] = c

\* the occurrence at p is followed by another character or ends the text
C13_Single(t, c, p) == p = Len(t) \/ t[p + 1] # c

\* k: the occurrence at p is the k-th of those directly followed by cc
C13_K(t, c, p) ==
    Cardinality({q \in C13_Occurrences(t, c) : q <= p /\ C13_Doubled(t, c, q)})

\* the rule puts a backslash before the character at p
C13_BackslashBefore(t, c, p) ==
    \/ p \in C13_Occurrences(t, c) /\ C13_Single(t, c, p)
    \/ /\ p \in C13_Occurrences(t, c) /\ C13_Doubled(t, c, p)
       /\ C13_K(t, c, p) % 2 = 1
    \/ /\ p - 2 \in C13_Occurrences(t, c) /\ C13_Doubled(t, c, p - 2)
       /\ C13_K(t, c, p - 2) % 2 = 0

C13_Pass(t, c) ==
    flatten([p \in 1..Len(t) |->
                IF C13_BackslashBefore(t, c, p) THEN <<BS, t[p]>> ELSE <<t[p]>>])

\* C13: escapeItalic puts a backslash before every * that no * precedes and
\* that another character or the end of the text follows; of the * that no *
\* precedes and that ** follows, the 1st, 3rd, ... get the backslash before
\* them and the 2nd, 4th, ... get it after the **; then the same is done to
\* _ with a count of its own, and nothing else changes.
C13_ItalicRule ==
    (done /\ trace = <<"escapeItalic">>) =>
        result = C13_Pass(C13_Pass(text, STAR), UND)

\* a call of escapeItalic on a text with an opener and a closer *** and,
\* after them, a ___ that is the first of its kind
C13_Witness ==
    /\ done /\ trace = <<"escapeItalic">>
    /\ \E p \in C13_Occurrences(text, STAR) :
          /\ C13_Doubled(text, STAR, p) /\ C13_K(text, STAR, p) = 2
          /\ \E q \in C13_Occurrences(text, UND) :
                q > p /\ C13_Doubled(text, UND, q) /\ C13_K(text, UND, q) = 1

(***************************************************************************)
(* C14                                                                     *)
(***************************************************************************)
\* the matches of ** with an optional third *, leftmost first, none
\* overlapping another: where each starts and whether it has the third marker
RECURSIVE C14_MatchesFrom(_, _)
C14_MatchesFrom(t, i) ==
    IF i + 1 > Len(t) THEN <<>>
    ELSE IF t[i] = STAR /\ t[i + 1] = STAR
         THEN LET third == i + 2 <= Len(t) /\ t[i + 2] = STAR
              IN  <<[at |-> i, third |-> third]>>
                  \o C14_MatchesFrom(t, i + (IF third THEN 3 ELSE 2))
         ELSE C14_MatchesFrom(t, i + 1)

C14_Matches(t) == C14_MatchesFrom(t, 1)

C14_End(m) == m.at + (IF m.third THEN 2 ELSE 1)

\* the j-th match is the how-manieth of those with the third marker
C14_Ordinal(ms, j) == Cardinality({k \in 1..j : ms[k].third})

\* t with every match replaced: a bare pair by the escaped pair, a match with
\* the third marker by oddForm or evenForm after its ordinal
C14_Rewritten(t, oddForm, evenForm) ==
    LET ms == C14_Matches(t)
        gapBefore(j) == SubSeq(t, IF j = 1 THEN 1 ELSE C14_End(ms[j - 1]) + 1,
                                  ms[j].at - 1)
        form(j) == IF ~ms[j].third THEN <<BS, STAR, BS, STAR>>
                   ELSE IF C14_Ordinal(ms, j) % 2 = 1 THEN oddForm
                   ELSE evenForm
        rest == SubSeq(t, IF ms = <<>> THEN 1 ELSE C14_End(ms[Len(ms)]) + 1, Len(t))
    IN  flatten([j \in 1..Len(ms) |-> gapBefore(j) \o form(j)]) \o rest

C14_PairThenMarker == <<BS, STAR, BS, STAR, STAR>>

C14_MarkerThenPair == <<STAR, BS, STAR, BS, STAR>>

\* C14 as stated: the 1st, 3rd, ... match with a third marker becomes the
\* escaped pair followed by the bare marker, the 2nd, 4th, ... the bare
\* marker followed by the escaped pair, and a bare pair the escaped pair
\* without counting.
C14_Original ==
    (done /\ trace = <<"escapeBold">>) =>
        result = C14_Rewritten(text, C14_PairThenMarker, C14_MarkerThenPair)

\* C14 as amended: the 1st, 3rd, ... match with a third marker becomes the
\* bare marker followed by the escaped pair, the 2nd, 4th, ... the escaped
\* pair followed by the bare marker, and a bare pair the escaped pair
\* without counting.
C14_OddMarkerFirst ==
    (done /\ trace = <<"escapeBold">>) =>
        result = C14_Rewritten(text, C14_MarkerThenPair, C14_PairThenMarker)

\* a call of escapeBold on a text with a bare pair between two triples
C14_Witness ==
    /\ done /\ trace = <<"escapeBold">>
    /\ LET ms == C14_Matches(text)
       IN  /\ Len(ms) = 3
           /\ ms[1].third /\ ~ms[2].third /\ ms[3].third

(***************************************************************************)
(* C15                                                                     *)
(***************************************************************************)
\* the length of the maximal run of backticks the backtick at p is in
C15_RunLength(t, p) ==
    LET first == CHOOSE a \in 1..p :
                    /\ \A k \in a..p : t[k] = BT
                    /\ (a = 1 \/ t[a - 1] # BT)
        last == CHOOSE b \in p..Len(t) :
                    /\ \A k \in p..b : t[k] = BT
                    /\ (b = Len(t) \/ t[b + 1] # BT)
    IN  last - first + 1

\* C15: escapeInlineCode puts a backslash before every backtick of a maximal
\* run of one or of two backticks and changes nothing else: the backticks of
\* a run of three or more stay as they are.
C15_RunsOfOneAndTwo ==
    (done /\ trace = <<"escapeInlineCode">>) =>
        result = flatten([p \in 1..Len(text) |->
                    IF text[p] = BT /\ C15_RunLength(text, p) \in {1, 2}
                    THEN <<BS, BT>> ELSE <<text[p]>>])

\* a call of escapeInlineCode on a text with a run of two, which it
\* escaped, and a run of three
C15_Witness ==
    /\ done /\ trace = <<"escapeInlineCode">>
    /\ \A n \in 2..3 :
          \E p \in 1..Len(text) : text[p] = BT /\ C15_RunLength(text, p) = n
    /\ Len(result) = Len(text) + 2

(***************************************************************************)
(* C16                                                                     *)
(***************************************************************************)
\* the characters of t from a to b are on one line and none is in S
C16_Free(t, a, b, S) ==
    \A k \in a..b : t[k] \notin S \cup LineTerminators

\* a masked link opens at p: [, a non-empty text without brackets, ](, a
\* non-empty url without parentheses, )
C16_LinkAt(t, p) ==
    /\ t[p] = "["
    /\ \E j \in (p + 2)..(Len(t) - 3) :
          /\ t[j] = "]" /\ t[j + 1] = "("
          /\ C16_Free(t, p + 1, j - 1, {"[", "]"})
          /\ \E k \in (j + 3)..Len(t) :
                /\ t[k] = ")"
                /\ C16_Free(t, j + 2, k - 1, {"(", ")"})

\* every [ of t opens a masked link
C16_OnlyLinks(t) == \A p \in 1..Len(t) : t[p] = "[" => C16_LinkAt(t, p)

\* C16: escapeMaskedLink puts a backslash before the [ of every masked link,
\* however many of them a line holds, and changes nothing else.
C16_EveryLinkEscaped ==
    (done /\ trace = <<"escapeMaskedLink">> /\ C16_OnlyLinks(text)) =>
        result = flatten([p \in 1..Len(text) |->
                    IF C16_LinkAt(text, p) THEN <<BS, text[p]>> ELSE <<text[p]>>])

\* the same of the texts with at most one masked link on a line
C16_OneLinkALine ==
    (/\ done /\ trace = <<"escapeMaskedLink">> /\ C16_OnlyLinks(text)
     /\ \A p, q \in 1..Len(text) :
           (p < q /\ text[p] = "[" /\ text[q] = "[") =>
               \E k \in p..q : text[k] \in LineTerminators) =>
        result = flatten([p \in 1..Len(text) |->
                    IF C16_LinkAt(text, p) THEN <<BS, text[p]>> ELSE <<text[p]>>])

(***************************************************************************)
(* A caller that makes one call after the other                            *)
(***************************************************************************)
MaxCalls == 2

CountingEscapers == {"escapeItalic", "escapeBold", "escapeUnderline"}

\* the caller invokes one of the escapers that count their matches
CallCountingEscaper ==
    /\ stack = <<>> /\ ~done
    /\ \E name \in CountingEscapers :
          /\ result' = apply(name, text)
          /\ trace' = <<name>>
    /\ done' = TRUE
    /\ UNCHANGED <<text, options, stack, history>>

\* one triple; two triples; a triple on either side of a fenced block; a
\* triple on either side of an inline code span
CallTexts ==
    {<<STAR, STAR, STAR>>,
     <<UND, UND, UND>>,
     <<STAR, STAR, STAR, "a", STAR, STAR, STAR>>,
     <<STAR, STAR, STAR>> \o FENCE \o <<"a">> \o FENCE \o <<STAR, STAR, STAR>>,
     <<UND, UND, UND, BT, "a", BT, UND, UND, UND>>}

CallOptions ==
    {[Defaults EXCEPT !.codeBlockContent = FALSE],
     [Defaults EXCEPT !.inlineCodeContent = FALSE]}

\* the call that has returned, as the caller remembers it
returned == [text |-> text, options |-> options, trace |-> trace, result |-> result]

\* the caller goes on to its next call, with arguments of its choice
CallAgain ==
    /\ done /\ Len(history) + 1 < MaxCalls
    /\ history' = Append(history, returned)
    /\ text' \in CallTexts
    /\ options' \in CallOptions
    /\ done' = FALSE
    /\ result' = <<>>
    /\ trace' = <<>>
    /\ UNCHANGED stack

InitCalls ==
    /\ text \in CallTexts
    /\ options \in CallOptions
    /\ Idle

NextCalls == Call \/ Splitter \/ Composer \/ CallCountingEscaper \/ CallAgain

SpecCalls == InitCalls /\ [][NextCalls]_vars

(***************************************************************************)
(* C17                                                                     *)
(***************************************************************************)
\* the calls that have returned so far
C17_Calls == {history[k] : k \in 1..Len(history)} \cup (IF done THEN {returned} ELSE {})

\* a direct call of an escaper invokes that escaper alone; a call of the
\* engine under these options invokes eight for every region
C17_Callee(r) == IF Len(r.trace) = 1 THEN r.trace[1] ELSE "escapeMarkdown"

C17_Arguments(r) ==
    IF C17_Callee(r) = "escapeMarkdown" THEN <<r.text, r.options>> ELSE <<r.text>>

\* the regions the engine splits the text of the call r into
C17_Regions(r) ==
    IF ~r.options.codeBlockContent THEN split(r.text, FENCE)
    ELSE IF ~r.options.inlineCodeContent THEN splitInline(r.text)
    ELSE <<r.text>>

C17_StartsWith(t, prefix) ==
    Len(t) >= Len(prefix) /\ SubSeq(t, 1, Len(prefix)) = prefix

C17_EndsWith(t, suffix) ==
    Len(t) >= Len(suffix) /\ SubSeq(t, Len(t) - Len(suffix) + 1, Len(t)) = suffix

\* what the callee makes of a triple of the marker c that is the first match
\* of a counter at 0
C17_Opener(callee, c) ==
    CASE callee = "escapeItalic" -> <<BS, c, c, c>>
      [] callee = "escapeBold" -> IF c = STAR THEN <<c, BS, c, BS, c>> ELSE <<c, c, c>>
      [] callee = "escapeUnderline" -> IF c = UND THEN <<c, BS, c, BS, c>> ELSE <<c, c, c>>
      [] callee = "escapeMarkdown" -> <<BS, c, BS, c, BS, c>>

\* C17: whatever calls came before, two calls of the same function with the
\* same arguments return the same text; a call whose text starts with a
\* triple treats it as the first match of its counters; and so does the
\* engine for the triple that starts the region after a block of code, when
\* the region before the block held one triple.
C17_CallsAreIndependent ==
    /\ \A r1, r2 \in C17_Calls :
          (C17_Callee(r1) = C17_Callee(r2) /\ C17_Arguments(r1) = C17_Arguments(r2))
              => r1.result = r2.result
    /\ \A r \in C17_Calls : \A c \in {STAR, UND} :
          C17_StartsWith(r.text, <<c, c, c>>) =>
              C17_StartsWith(r.result, C17_Opener(C17_Callee(r), c))
    /\ \A r \in C17_Calls : \A c \in {STAR, UND} :
          (/\ C17_Callee(r) = "escapeMarkdown"
           /\ Len(C17_Regions(r)) = 3
           /\ C17_Regions(r)[1] = <<c, c, c>>
           /\ C17_Regions(r)[3] = <<c, c, c>>) =>
              C17_EndsWith(r.result, C17_Opener("escapeMarkdown", c))

\* a call of escapeBold that matched one triple, followed by a call of
\* escapeBold on a text that starts with a triple
C17_Witness ==
    /\ done /\ Len(history) = 1
    /\ history[1].trace = <<"escapeBold">> /\ trace = <<"escapeBold">>
    /\ history[1].text = <<STAR, STAR, STAR>>
    /\ text = <<STAR, STAR, STAR>>
    /\ result = <<STAR, BS, STAR, BS, STAR>>

\* a call of the engine on a triple, a block of code and a triple, after a
\* call of the engine that matched one triple
C17_WitnessRegions ==
    /\ done /\ Len(history) = 1
    /\ C17_Callee(history[1]) = "escapeMarkdown" /\ C17_Callee(returned) = "escapeMarkdown"
    /\ history[1].text = <<STAR, STAR, STAR>>
    /\ ~options.codeBlockContent
    /\ Len(split(text, FENCE)) = 3
    /\ C17_EndsWith(result, <<BS, STAR, BS, STAR, BS, STAR>>)

====
